---- MODULE Spec2Model ----
(***************************************************************************)
(* Model of the two selective time series containers:                      *)
(*   selective_time_series  (src/selective_time_series.hpp), which keeps   *)
(*     three parallel attribute arrays and an order table of slot indices; *)
(*   selective_timeseries   (src/selective_timeseries.hpp), which keeps an *)
(*     array of elements and an order table of element pointers.           *)
(* Arrays are functions on 0..S-1, as in the source.  A container object   *)
(* is a record whose fields carry the names of the class members.          *)
(***************************************************************************)
EXTENDS Integers, Sequences, FiniteSets, Bags, TLC

\* Template parameter S of the container under test.
Capacity == 3
\* Template parameter S of the container a stream of add, remove and best
\* calls runs on, and the number of calls of that stream.
StreamCapacity == 4
MaxStreamOps == 5
\* Largest timestamp, score and value a caller passes.
MaxTime == 3
MaxScore == 2
MaxVal == 1
\* Number of calls made on the object in one behaviour (a merge counts as
\* one call for each sample of the other container).
MaxOps == 4
\* Number of calls in a behaviour in which every operation can be called.
MaxCalls == 3
\* Largest number of samples held by the other container of a merge.
MaxOther == 1
\* Template parameter S of the small object containers are merged into, the
\* number of calls made on it, and the largest other container merged.
SmallCapacity == 2
MaxSmallOps == 4
MaxSmallOther == 2
\* index_t of the index variant is uint8_t for S < 256: its values wrap here.
IndexLimit == 256
\* std::numeric_limits<T_time>::max(), as far as the model's integers go.
TimeLimit == 2147483647

\* Content of a storage cell that was never written (index variant: the
\* arrays are default-initialised, src/selective_time_series.hpp:65-67).
Indet == 0 - 1
\* Value of a byte read outside the offsets array.
Junk == 0 - 2
\* nullptr of the pointer variant; a pointer to elements[k] is k.
Null == 0 - 1

VARIABLES
    variant,    \* "index": selective_time_series, "pointer": selective_timeseries
    S,          \* template parameter S
    Reverse,    \* template parameter Reverse
    budget,     \* number of calls made on the object in this behaviour
    its,        \* the selective_time_series object
    pts,        \* the selective_timeseries object
    plain_ts,   \* the array ts of test/plain.cpp, and its loop counter i
    nops,       \* calls made so far
    call,       \* the last call: operation, arguments, and what _add,
                \* insert_one or remove returned (ret), or best (res)
    added       \* while only add(val, timestamp, score) was called, with
                \* strictly increasing timestamps: the scores passed, sorted

vars == <<variant, S, Reverse, budget, its, pts, plain_ts, nops, call, added>>

Slots == 0..(S - 1)
Times == 0..MaxTime
Scores == 0..MaxScore
Vals == 0..MaxVal

\* Values an out-of-bounds byte can turn out to have (bounded: enough to
\* exceed S).
Garbage == 0..(S + 1)

Sample(v, t, s) == [value |-> v, timestamp |-> t, score |-> s]

Min(a, b) == IF a < b THEN a ELSE b

(***************************************************************************)
(*                 selective_time_series (index variant)                   *)
(***************************************************************************)

\* The constructor: offsets is the identity (reversed in Reverse mode); the
\* attribute arrays are left as they are.
NewSeries(rev) ==
    [values |-> [i \in Slots |-> Indet],
     timestamps |-> [i \in Slots |-> Indet],
     scores |-> [i \in Slots |-> Indet],
     offsets |-> [i \in Slots |-> IF rev THEN (S - 1) - i ELSE i],
     utilized |-> 0,
     last_timestamp_plus_one |-> 0,
     dirty |-> 0,
     \* not a member: an out-of-bounds access or an invalid range happened
     ub |-> FALSE]

\* A worst_index that takes the first smallest score.
worst_index_min(c) ==
    CHOOSE i \in Slots :
        /\ \A j \in Slots : c.scores[j] >= c.scores[i]
        /\ \A j \in Slots : j < i => c.scores[j] > c.scores[i]

\* std::max_element(scores.begin(), scores.end()): the first largest score
\* of all S cells.
worst_index(c) ==
    CHOOSE i \in Slots :
        /\ \A j \in Slots : c.scores[j] <= c.scores[i]
        /\ \A j \in Slots : j < i => c.scores[j] < c.scores[i]

find_offset_index(c, in) ==
    IF \E i \in Slots : c.offsets[i] = in
    THEN CHOOSE i \in Slots :
            /\ c.offsets[i] = in
            /\ \A j \in Slots : j < i => c.offsets[j] # in
    ELSE S

\* std::move(offsets.begin() + first, offsets.begin() + last,
\* offsets.begin() + d) on the bytes of the object: the builds copy a
\* range of index_t with memmove, so an overlapping range is moved intact.
\* The byte after the array is the member utilized; the bytes after that
\* are padding, and read Junk.  A range that ends before it starts, or any
\* access past the array, sets ub.
MoveOffsets(c, first, last, d) ==
    LET n == last - first
        rd(p) == IF p < S THEN c.offsets[p]
                 ELSE IF p = S THEN c.utilized
                 ELSE Junk
        src(p) == rd(first + (p - d))
        hit(p) == n > 0 /\ p >= d /\ p < d + n
    IN  IF n < 0
        THEN [c EXCEPT !.ub = TRUE]
        ELSE [c EXCEPT
                !.offsets = [p \in Slots |-> IF hit(p) THEN src(p) ELSE c.offsets[p]],
                !.utilized = IF hit(S) THEN src(S) ELSE c.utilized,
                !.ub = c.ub \/ (n > 0 /\ (last > S \/ d + n > S))]

Store(c, slot, val, timestamp, score) ==
    [c EXCEPT !.values[slot] = val,
              !.timestamps[slot] = timestamp,
              !.scores[slot] = score]

\* ++utilized, on a counter that may have been overwritten.
Incr(u) == IF u = Junk THEN Junk ELSE u + 1

\* An _add that writes the sample over the worst cell before it compares
\* the scores.
add_store_first(c, val, timestamp, score) ==
    LET c1 == [c EXCEPT !.last_timestamp_plus_one = timestamp + 1]
        wi == worst_index(c)
        ws == c.scores[wi]
        c2 == Store(c1, wi, val, timestamp, score)
    IN  IF c.utilized < S
        THEN [c |-> [Store(c1, c.utilized, val, timestamp, score)
                        EXCEPT !.utilized = c.utilized + 1],
              ret |-> TRUE]
        ELSE [c |-> c2, ret |-> score <= ws]

\* _add: returns the object after the call and the returned bool.
add_(c, val, timestamp, score) ==
    LET c1 == [c EXCEPT !.last_timestamp_plus_one = timestamp + 1]
        wi == worst_index(c)
        ws == c.scores[wi]
        oi == find_offset_index(c, wi)
        c2 == Store(c1, wi, val, timestamp, score)
        c3 == IF Reverse
              THEN MoveOffsets(c2, 0, oi, 1)
              ELSE MoveOffsets(c2, oi + 1, S, oi)
        c4 == [c3 EXCEPT !.offsets[IF Reverse THEN 0 ELSE S - 1] = wi]
    IN  IF c.utilized < S
        THEN [c |-> [Store(c1, c.utilized, val, timestamp, score)
                        EXCEPT !.utilized = c.utilized + 1],
              ret |-> TRUE]
        ELSE IF score <= ws
        THEN [c |-> c4, ret |-> TRUE]
        ELSE [c |-> c1, ret |-> FALSE]

\* insertion_offset: a position of the offsets array (in Reverse mode the
\* scan starts at S - utilized, and the position returned is counted from
\* the start of the array).
insertion_offset(c, timestamp) ==
    LET lo == IF Reverse THEN S - c.utilized ELSE 0
        hi == IF Reverse THEN S ELSE c.utilized
        before(i) == IF Reverse
                     THEN timestamp > c.timestamps[c.offsets[i]]
                     ELSE timestamp < c.timestamps[c.offsets[i]]
        found == {i \in lo..(hi - 1) : before(i)}
    IN  IF found = {}
        THEN hi
        ELSE CHOOSE i \in found : \A j \in found : i <= j

\* has(elem): each attribute is looked up on its own, in all S cells.  The
\* cells never written hold indeterminate values; g says whether they
\* match the attributes looked up (the outcomes are the result over the
\* written cells, and TRUE).
has(c, elem, g) ==
    LET unwritten == c.utilized < S
        inT == \E i \in Slots : c.timestamps[i] = elem.timestamp
        inS == \E i \in Slots : c.scores[i] = elem.score
        inV == \E i \in Slots : c.values[i] = elem.value
    IN  /\ inT \/ (unwritten /\ g)
        /\ inS \/ (unwritten /\ g)
        /\ inV \/ (unwritten /\ g)

\* insert_one(elem): the object after the call and the returned bool.
insert_one(c, elem) ==
    LET c1 == IF elem.timestamp + 1 > c.last_timestamp_plus_one
              THEN [c EXCEPT !.last_timestamp_plus_one = elem.timestamp + 1]
              ELSE c
        \* utilized < S
        n2 == Store(c1, c.utilized, elem.value, elem.timestamp, elem.score)
        nio == insertion_offset(n2, elem.timestamp)
        b == S - c.utilized
        n3 == IF Reverse
              THEN MoveOffsets(n2, b, b + nio, b - 1)
              ELSE MoveOffsets(n2, nio, c.utilized, nio + 1)
        n4 == [n3 EXCEPT !.utilized = Incr(n3.utilized)]
        \* utilized = S
        wi == worst_index(c)
        ws == c.scores[wi]
        f2 == Store(c1, wi, elem.value, elem.timestamp, elem.score)
        wo == find_offset_index(f2, wi)
        io == insertion_offset(f2, elem.timestamp)
        f3 == IF io < wo
              THEN LET m == MoveOffsets(f2, io, wo, io + 1)
                   IN  [m EXCEPT !.offsets[io] = wi]
              ELSE IF wo < io
              THEN LET m == MoveOffsets(f2, wo + 1, io, wo)
                   IN  [m EXCEPT !.offsets[io - 1] = wi]
              ELSE f2
    IN  IF c.utilized < S
        THEN [c |-> n4, ret |-> TRUE]
        ELSE IF elem.score > ws
        THEN [c |-> c1, ret |-> FALSE]
        ELSE [c |-> f3, ret |-> TRUE]

\* The cell an order position refers to, as operator* and operator[] read
\* it; a position or an offset outside the arrays reads Junk.
Cell(c, slot) ==
    IF slot \in Slots
    THEN Sample(c.values[slot], c.timestamps[slot], c.scores[slot])
    ELSE Sample(Junk, Junk, Junk)

At(c, pos) ==
    IF pos \in Slots THEN Cell(c, c.offsets[pos]) ELSE Sample(Junk, Junk, Junk)

\* begin() .. end(): the samples the range-for yields, in order.
Iterate(c) ==
    LET u == IF c.utilized = Junk THEN 0 ELSE c.utilized
    IN  [n \in 1..u |-> At(c, IF Reverse THEN (S - u) + (n - 1) ELSE n - 1)]

\* best<N>, the inner loop "for j in 0..N-1: if (ws < score(res[j]))":
\* res[j] is a tuple of references to cell j.
RECURSIVE BestRescan(_, _, _, _)
BestRescan(c, N, j, w) ==
    IF j >= N
    THEN w
    ELSE BestRescan(c, N, j + 1,
                    IF w.ws < c.scores[j] THEN [wi |-> j, ws |-> c.scores[j]] ELSE w)

\* best<N>, the loop "for i in N..utilized-1": assigning to res[wi] writes
\* through its references, so cell wi receives a copy of cell i.
RECURSIVE BestScan(_, _, _, _)
BestScan(c, N, i, w) ==
    IF i >= c.utilized
    THEN c
    ELSE IF w.ws > c.scores[i]
    THEN LET c2 == Store(c, w.wi, c.values[i], c.timestamps[i], c.scores[i])
         IN  BestScan(c2, N, i + 1, BestRescan(c2, N, 0, w))
    ELSE BestScan(c, N, i + 1, w)

SwapCells(c, a, b) ==
    Store(Store(c, a, c.values[b], c.timestamps[b], c.scores[b]),
          b, c.values[a], c.timestamps[a], c.scores[a])

\* best<N>, the inner loop of the final sort: res[j].swap(res[j-1]) swaps
\* the contents of cells j and j-1.
RECURSIVE BestSink(_, _)
BestSink(c, j) ==
    IF j > 0 /\ (IF Reverse
                 THEN c.timestamps[j - 1] < c.timestamps[j]
                 ELSE c.timestamps[j - 1] > c.timestamps[j])
    THEN BestSink(SwapCells(c, j, j - 1), j - 1)
    ELSE c

RECURSIVE BestSort(_, _, _)
BestSort(c, N, i) ==
    IF i >= N THEN c ELSE BestSort(BestSink(c, i), N, i + 1)

\* best<N>(): the object after the call and the returned array (the cells
\* 0..N-1 the returned references are bound to).
best(c, N) ==
    LET w0 == BestRescan(c, N, 1, [wi |-> 0, ws |-> c.scores[0]])
        c2 == BestSort(BestScan(c, N, N, w0), N, 0)
    IN  [c |-> c2, ret |-> [k \in 1..N |-> Cell(c2, k - 1)]]

\* merge(other): other is the sequence other's range-for yields; g[k] is
\* what the never written cells do to has() for other[k].
RECURSIVE merge(_, _, _, _)
merge(c, other, g, k) ==
    IF k > Len(other) \/ c.ub
    THEN c
    ELSE IF has(c, other[k], g[k])
    THEN merge(c, other, g, k + 1)
    ELSE merge(insert_one(c, other[k]).c, other, g, k + 1)

\* The values a byte that reads Junk can have.
Bytes(x) == IF x = Junk THEN Garbage ELSE {x}

\* The objects a call can leave behind: every Junk byte is some value.
Outcomes(c) ==
    IF ~c.ub
    THEN {c}
    ELSE {[c EXCEPT !.offsets = o, !.utilized = u] :
            o \in {f \in [Slots -> Garbage \cup Slots] :
                        \A p \in Slots : f[p] \in Bytes(c.offsets[p])},
            u \in Bytes(c.utilized)}

(***************************************************************************)
(*                  selective_timeseries (pointer variant)                 *)
(***************************************************************************)

\* elements {} is value-initialised, index {0} is all nullptr.
NewPSeries ==
    [elements |-> [i \in Slots |-> Sample(0, 0, 0)],
     index |-> [i \in Slots |-> Null],
     utilized |-> 0,
     last_timestamp_plus_one |-> 0,
     dirty |-> 0,
     \* not a member: a null dereference or an invalid range happened
     ub |-> FALSE]

\* ptr->score; a null pointer reads Junk.
PScore(c, ptr) == IF ptr = Null THEN Junk ELSE c.elements[ptr].score

\* The loop of worst_index over index positions i..hi-1.
RECURSIVE PWorstScan(_, _, _, _)
PWorstScan(c, i, hi, w) ==
    IF i >= hi
    THEN w
    ELSE LET sc == PScore(c, c.index[i])
         IN  PWorstScan(c, i + 1, hi,
                        IF sc = Junk
                        THEN [w EXCEPT !.ub = TRUE]
                        ELSE IF sc > w.w
                        THEN [w EXCEPT !.w = sc, !.wi = i]
                        ELSE w)

\* worst_index(): the position found, and whether a null was dereferenced.
p_worst_index(c) ==
    LET lo == IF c.utilized < S /\ Reverse THEN S - c.utilized ELSE 0
        hi == IF c.utilized < S /\ ~Reverse THEN c.utilized ELSE S
    IN  PWorstScan(c, lo, hi, [w |-> 0, wi |-> 0, ub |-> FALSE])

\* std::move / std::rotate on the index array: ranges of pointers, moved
\* with memmove.  All ranges of the pointer variant lie inside the array;
\* one that ends before it starts sets ub.
MoveIndex(c, first, last, d) ==
    LET n == last - first
    IN  IF n < 0
        THEN [c EXCEPT !.ub = TRUE]
        ELSE [c EXCEPT !.index =
                [p \in Slots |-> IF p >= d /\ p < d + n
                                 THEN c.index[first + (p - d)]
                                 ELSE c.index[p]]]

\* _add of the pointer variant.
p_add_(c, val, timestamp, score) ==
    LET c1 == [c EXCEPT !.last_timestamp_plus_one = timestamp + 1]
        n2 == [c1 EXCEPT !.elements[c.utilized] = Sample(val, timestamp, score),
                         !.index[IF Reverse THEN (S - c.utilized) - 1 ELSE c.utilized]
                              = c.utilized,
                         !.utilized = c.utilized + 1]
        wr == p_worst_index(c)
        w == wr.wi
        temp == c.index[w]
        f2 == [c1 EXCEPT !.elements[temp] = Sample(val, timestamp, score)]
        f3 == IF Reverse
              THEN [MoveIndex(f2, 0, w, 1) EXCEPT !.index[0] = temp]
              ELSE [MoveIndex(f2, w + 1, S, w) EXCEPT !.index[S - 1] = temp]
    IN  IF c.utilized < S
        THEN [c |-> n2, ret |-> TRUE]
        ELSE IF wr.ub \/ temp = Null
        THEN [c |-> [c1 EXCEPT !.ub = TRUE], ret |-> FALSE]
        ELSE IF score < c.elements[temp].score
        THEN [c |-> f3, ret |-> TRUE]
        ELSE [c |-> c1, ret |-> FALSE]

\* find_by_exact_time(time), the loop over index positions i..hi-1: the
\* element found (Null: nullptr), and whether a null was dereferenced.
RECURSIVE PFindExact(_, _, _, _)
PFindExact(c, time, i, hi) ==
    IF i >= hi
    THEN [res |-> Null, ub |-> FALSE]
    ELSE LET ptr == c.index[i]
         IN  IF ptr = Null
             THEN [res |-> Null, ub |-> TRUE]
             ELSE IF c.elements[ptr].timestamp = time
             THEN [res |-> ptr, ub |-> FALSE]
             ELSE IF (IF Reverse
                      THEN c.elements[ptr].timestamp < time
                      ELSE c.elements[ptr].timestamp > time)
             THEN [res |-> Null, ub |-> FALSE]
             ELSE PFindExact(c, time, i + 1, hi)

\* A find_by_exact_time that scans positions 0..utilized-1 in both modes, as
\* remove does on an object that is not full.
find_by_exact_time_low(c, time) == PFindExact(c, time, 0, c.utilized)

find_by_exact_time(c, time) ==
    IF Reverse
    THEN PFindExact(c, time, S - c.utilized, S)
    ELSE PFindExact(c, time, 0, c.utilized)

\* find_closest_time(time), the range-for over index positions k..hi-1.
\* res is a reference bound to element r0, so "res = i" copies the element
\* i into element r0; "return res" returns element r0, "return i" the
\* element of the exact match.  (As written, "this[0]" and "for (... : this)"
\* name the object through the pointer; they are read as (*this)[0] and
\* *this.)
RECURSIVE PClosestScan(_, _, _, _, _, _)
PClosestScan(c, time, k, hi, r0, bestdiff) ==
    IF k >= hi
    THEN [c |-> c, res |-> r0, ub |-> FALSE]
    ELSE LET ptr == c.index[k]
             ts == c.elements[ptr].timestamp
             diff == IF time > ts THEN time - ts ELSE ts - time
             assigned == [c EXCEPT !.elements[r0] = c.elements[ptr]]
         IN  IF ptr = Null
             THEN [c |-> c, res |-> r0, ub |-> TRUE]
             ELSE IF time = ts
             THEN [c |-> c, res |-> ptr, ub |-> FALSE]
             ELSE IF diff < bestdiff
             THEN PClosestScan(assigned, time, k + 1, hi, r0, diff)
             ELSE IF (time > ts) = Reverse
             THEN [c |-> c, res |-> r0, ub |-> FALSE]
             ELSE PClosestScan(c, time, k + 1, hi, r0, bestdiff)

find_closest_time(c, time) ==
    LET lo == IF Reverse THEN S - c.utilized ELSE 0
        hi == IF Reverse THEN S ELSE c.utilized
        r0 == IF lo \in Slots THEN c.index[lo] ELSE Null
    IN  IF r0 = Null
        THEN [c |-> c, res |-> Null, ub |-> TRUE]
        ELSE PClosestScan(c, time, lo, hi, r0, TimeLimit)

\* remove(e): e is the address of elements[e].
remove(c, e) ==
    LET hi == IF c.utilized < S THEN c.utilized ELSE S
        found == {i \in 0..(hi - 1) : c.index[i] = e}
        i == CHOOSE k \in found : \A j \in found : k <= j
        u == c.utilized
        moved ==
            IF u < S
            THEN IF Reverse
                 THEN [MoveIndex(c, S - u, i, (S - u) + 1)
                          EXCEPT !.index[(S - u) - 1] = Null]
                 ELSE [MoveIndex(c, i + 1, S, i) EXCEPT !.index[S - 1] = Null]
            ELSE IF Reverse
                 THEN [MoveIndex(c, 0, i, 1) EXCEPT !.index[0] = Null]
                 \* index[i] = nullptr; rotate(begin + i, begin + i + 1, begin + utilized)
                 ELSE [MoveIndex(c, i + 1, u, i) EXCEPT !.index[u - 1] = Null]
    IN  IF found = {}
        THEN [c |-> c, ret |-> FALSE]
        ELSE [c |-> [moved EXCEPT !.utilized = u - 1], ret |-> TRUE]

PCell(c, ptr) ==
    IF ptr = Null THEN Sample(Junk, Junk, Junk) ELSE c.elements[ptr]

\* begin() .. end() of the pointer variant.
PIterate(c) ==
    [n \in 1..c.utilized |->
        PCell(c, c.index[IF Reverse THEN (S - c.utilized) + (n - 1) ELSE n - 1])]

\* best<N> of the pointer variant, the loop "for j in 0..N-1:
\* if (res[j]->score > res[wi]->score) wi = j".  r = [res, wi, ub], res a
\* function on 0..N-1.
RECURSIVE PBestRescan(_, _, _, _)
PBestRescan(c, N, j, r) ==
    IF j >= N
    THEN r
    ELSE LET a == PScore(c, r.res[j])
             b == PScore(c, r.res[r.wi])
         IN  PBestRescan(c, N, j + 1,
                         IF a = Junk \/ b = Junk
                         THEN [r EXCEPT !.ub = TRUE]
                         ELSE IF a > b THEN [r EXCEPT !.wi = j] ELSE r)

\* best<N> of the pointer variant, the loop over index positions i..hi-1:
\* a better element drops res[wi] and is appended at the end of res.
RECURSIVE PBestScan(_, _, _, _, _)
PBestScan(c, N, i, hi, r) ==
    IF i >= hi \/ r.ub
    THEN r
    ELSE LET a == PScore(c, c.index[i])
             b == PScore(c, r.res[r.wi])
             shifted == [k \in 0..(N - 1) |->
                            IF k = N - 1 THEN c.index[i]
                            ELSE IF k >= r.wi THEN r.res[k + 1]
                            ELSE r.res[k]]
         IN  IF a = Junk \/ b = Junk
             THEN [r EXCEPT !.ub = TRUE]
             ELSE IF a < b
             THEN PBestScan(c, N, i + 1, hi,
                            PBestRescan(c, N, 0, [r EXCEPT !.res = shifted]))
             ELSE PBestScan(c, N, i + 1, hi, r)

\* best<N>() of the pointer variant: the returned array of pointers (a
\* function on 0..N-1) and whether a null pointer was dereferenced.
p_best(c, N) ==
    LET u == c.utilized
        \* std::copy(index.begin() + from, index.begin() + from + cnt, res.begin())
        copy(from, cnt) == [k \in 0..(N - 1) |->
                              IF k < cnt THEN c.index[from + k] ELSE Null]
        start(from) == PBestRescan(c, N, 0,
                                   [res |-> copy(from, N), wi |-> 0, ub |-> FALSE])
        plain(from, cnt) == [res |-> copy(from, cnt), wi |-> 0, ub |-> FALSE]
    IN  IF N >= S
        THEN plain(0, S)
        ELSE IF Reverse
        THEN IF u < S
             THEN IF u > N
                  THEN PBestScan(c, N, S - u, S, start(S - u))
                  ELSE plain(S - u, u)
             ELSE PBestScan(c, N, 0, S, start(S - u))
        ELSE IF u < S
             THEN IF u > N
                  THEN PBestScan(c, N, N, u, start(0))
                  ELSE plain(0, u)
             ELSE PBestScan(c, N, N, S, start(0))

\* The samples the N returned pointers of best<N>() refer to.
PBestCells(c, N, res) == [k \in 1..N |-> PCell(c, res[k - 1])]

(***************************************************************************)
(*                         The calls on the object                         *)
(***************************************************************************)

Cur == IF variant = "index" THEN its ELSE pts

Iter(c) == IF variant = "index" THEN Iterate(c) ELSE PIterate(c)

Range(f) == {f[x] : x \in DOMAIN f}

\* The samples the object holds: the written cells of the index variant,
\* the elements the order table of the pointer variant refers to.
Retained(c) ==
    IF variant = "index"
    THEN {Cell(c, i) : i \in {k \in Slots : k < c.utilized}}
    ELSE Range(PIterate(c))

\* The held samples as a sequence: the occupied cells in storage order, the
\* referenced elements in index order.
Held(c) ==
    IF variant = "index"
    THEN [n \in 1..(IF c.utilized \in 0..S THEN c.utilized ELSE 0) |-> Cell(c, n - 1)]
    ELSE PIterate(c)

\* add() takes a timestamp that is not older than any held sample.
Newest(c, t) == \A e \in Retained(c) : e.timestamp <= t

\* A sorted sequence with x added.
RECURSIVE SortedInsert(_, _)
SortedInsert(q, x) ==
    IF q = <<>> THEN <<x>>
    ELSE IF x <= Head(q) THEN <<x>> \o q
    ELSE <<Head(q)>> \o SortedInsert(Tail(q), x)

\* test/plain.cpp: std::array<sample, S> ts of value-initialised samples,
\* before the first turn of the loop.
NewPlain == [ts |-> [k \in Slots |-> Sample(0, 0, 0)], i |-> 0]

\* test/plain.cpp, the scan "for (j = 1; j < ts.size(); ++j)
\* if (ts[j].score > ws) { ws = ts[j].score; wi = j; }".
RECURSIVE PlainWorst(_, _, _)
PlainWorst(p, j, w) ==
    IF j >= S
    THEN w
    ELSE PlainWorst(p, j + 1,
                    IF p.ts[j].score > w.ws THEN [wi |-> j, ws |-> p.ts[j].score] ELSE w)

\* test/plain.cpp, one turn of the loop "for (i = 0; ...)" with the sample
\* (val, i, score).
plain_add(p, val, score) ==
    LET new == Sample(val, p.i, score)
        w == PlainWorst(p, 1, [wi |-> 0, ws |-> p.ts[0].score])
        moved == [k \in Slots |-> IF k = S - 1 THEN new
                                  ELSE IF k >= w.wi THEN p.ts[k + 1]
                                  ELSE p.ts[k]]
    IN  [ts |-> IF p.i < S
                THEN [p.ts EXCEPT ![p.i] = new]
                ELSE IF score <= w.ws THEN moved ELSE p.ts,
         i |-> p.i + 1]

\* The samples of the array that were stored by the loop, in array order.
PlainContents(p) == [n \in 1..Min(p.i, S) |-> p.ts[n - 1]]

NoCall ==
    [op |-> "new", value |-> 0, timestamp |-> 0, score |-> 0, N |-> 0,
     e |-> 0, ret |-> FALSE,
     \* best: the samples returned; a loop of add: what each call returned
     res |-> <<>>,
     \* the value the public function returned (add: dirty; worst: a sample)
     out |-> 0,
     \* merge: what the range-for over the other container yielded
     other |-> <<>>]

\* An object of either class, of capacity cap, in either order mode, right
\* after its constructor; ops calls will be made on it.
Construct(cap, ops) ==
    /\ variant \in {"index", "pointer"}
    /\ S = cap
    /\ Reverse \in BOOLEAN
    /\ budget = ops
    /\ its = NewSeries(Reverse)
    /\ pts = NewPSeries
    /\ plain_ts = NewPlain
    /\ nops = 0
    /\ call = NoCall
    /\ added = [ok |-> TRUE, scores |-> <<>>]

Init == Construct(Capacity, MaxCalls)

\* The same object, on which MaxOps add and insert calls are made.
InitInsert == Construct(Capacity, MaxOps)

\* The bookkeeping of a call that left the object c2 and counts as n calls.
Done(c2, cl, n) ==
    /\ nops' = nops + n
    /\ call' = cl
    /\ IF variant = "index"
       THEN its' \in Outcomes(c2) /\ pts' = pts
       ELSE pts' = c2 /\ its' = its
    /\ UNCHANGED <<variant, S, Reverse, budget, plain_ts>>

NotAdd3 == added' = [ok |-> FALSE, scores |-> <<>>]

Callable == nops < budget /\ ~Cur.ub

AddImpl(c, val, timestamp, score) ==
    IF variant = "index"
    THEN add_(c, val, timestamp, score)
    ELSE p_add_(c, val, timestamp, score)

\* dirty += _add(...), in the type of dirty.
Dirtied(c, ret) ==
    IF ~ret THEN c
    ELSE [c EXCEPT !.dirty =
            IF variant = "index" THEN (c.dirty + 1) % IndexLimit ELSE c.dirty + 1]

\* add(val)
Add1(val) ==
    /\ Callable
    /\ Cur.last_timestamp_plus_one <= MaxTime
    /\ LET t == Cur.last_timestamp_plus_one
           r == AddImpl(Cur, val, t, 0)
       IN  Done(Dirtied(r.c, r.ret),
                [NoCall EXCEPT !.op = "add1", !.value = val, !.timestamp = t,
                               !.ret = r.ret,
                               !.out = Dirtied(r.c, r.ret).dirty], 1)
    /\ NotAdd3

\* n successive calls of add(val).  r = [c, kept, out, outs]: the object, the
\* number of calls _add answered with true, what the last call returned, and
\* what each call returned.  (The
\* calls are made half by half, and the object the first half leaves is
\* compared, which has it computed before the second half starts: this keeps
\* the evaluation shallow.)
RECURSIVE AddMany(_, _, _)
AddMany(r, val, n) ==
    IF n = 0
    THEN r
    ELSE IF n = 1
    THEN LET a == AddImpl(r.c, val, r.c.last_timestamp_plus_one, 0)
             d == Dirtied(a.c, a.ret)
         IN  [c |-> d, kept |-> r.kept + (IF a.ret THEN 1 ELSE 0), out |-> d.dirty,
              outs |-> Append(r.outs, d.dirty)]
    ELSE LET half == AddMany(r, val, n \div 2)
         IN  IF half = half THEN AddMany(half, val, n - (n \div 2)) ELSE r

\* for (i = 0; i < n; ++i) add(val)
AddLoop(val, n) ==
    /\ Callable
    /\ LET r == AddMany([c |-> Cur, kept |-> 0, out |-> Cur.dirty, outs |-> <<>>], val, n)
       IN  Done(r.c, [NoCall EXCEPT !.op = "loop", !.value = val, !.N = r.kept,
                                   !.out = r.out, !.res = r.outs], 1)
    /\ NotAdd3

\* add(val, timestamp)
Add2(val, t) ==
    /\ Callable
    /\ Newest(Cur, t)
    /\ LET r == AddImpl(Cur, val, t, 0)
       IN  Done(Dirtied(r.c, r.ret),
                [NoCall EXCEPT !.op = "add2", !.value = val, !.timestamp = t,
                               !.ret = r.ret,
                               !.out = Dirtied(r.c, r.ret).dirty], 1)
    /\ NotAdd3

\* add(val, timestamp, score)
Add3(val, t, score) ==
    /\ Callable
    /\ Newest(Cur, t)
    /\ LET r == AddImpl(Cur, val, t, score)
       IN  Done(r.c,
                [NoCall EXCEPT !.op = "add3", !.value = val, !.timestamp = t,
                               !.score = score, !.ret = r.ret,
                               !.out = r.c.dirty], 1)
    /\ added' = IF added.ok /\ t >= Cur.last_timestamp_plus_one
                THEN [added EXCEPT !.scores = SortedInsert(added.scores, score)]
                ELSE [ok |-> FALSE, scores |-> <<>>]

\* insert(val, timestamp, score)
Insert(val, t, score) ==
    /\ Callable
    /\ variant = "index"
    /\ LET r == insert_one(its, Sample(val, t, score))
       IN  Done(r.c,
                [NoCall EXCEPT !.op = "insert", !.value = val, !.timestamp = t,
                               !.score = score, !.ret = r.ret], 1)
    /\ NotAdd3

Samples == {Sample(v, t, s) : v \in Vals, t \in Times, s \in Scores}

\* What the range-for over the other container of a merge can yield.
OtherSeries == UNION {[1..n -> Samples] : n \in 1..MaxOther}

\* merge(other)
Merge(other, g) ==
    /\ Callable
    /\ variant = "index"
    /\ nops + Len(other) <= budget
    /\ Done(merge(its, other, g, 1),
            [NoCall EXCEPT !.op = "merge", !.other = other], Len(other))
    /\ NotAdd3

\* What the cells never written can turn out to hold when they are read.
Uninit == {Sample(0, 0, 0), Sample(MaxVal, MaxTime, MaxScore)}

\* The object with the never written cells below N holding f.
Filled(c, N, f) ==
    LET fresh(k) == k >= c.utilized /\ k < N /\ c.timestamps[k] = Indet
    IN  [c EXCEPT !.values = [k \in Slots |-> IF fresh(k) THEN f.value ELSE c.values[k]],
                  !.timestamps = [k \in Slots |-> IF fresh(k) THEN f.timestamp
                                                  ELSE c.timestamps[k]],
                  !.scores = [k \in Slots |-> IF fresh(k) THEN f.score ELSE c.scores[k]]]

\* best<N>(), N <= S (static_assert in the index variant; the pointer
\* variant copies the whole index for N >= S).
Best(N) ==
    /\ Callable
    /\ IF variant = "index"
       THEN \E f \in Uninit :
                LET r == best(Filled(its, N, f), N)
                IN  Done(r.c, [NoCall EXCEPT !.op = "best", !.N = N, !.res = r.ret], 1)
       ELSE LET r == p_best(pts, N)
            IN  Done([pts EXCEPT !.ub = r.ub],
                     [NoCall EXCEPT !.op = "best", !.N = N,
                                    !.res = PBestCells(pts, N, r.res)], 1)
    /\ NotAdd3

\* worst(): the index variant looks for the largest score in all S cells,
\* written or not; the pointer variant dereferences index[worst_index()].
Worst ==
    /\ Callable
    /\ IF variant = "index"
       THEN \E f \in Uninit :
                LET c == Filled(its, S, f)
                IN  Done(its, [NoCall EXCEPT !.op = "worst",
                                            !.out = Cell(c, worst_index(c))], 1)
       ELSE LET wr == p_worst_index(pts)
                ptr == pts.index[wr.wi]
            IN  Done([pts EXCEPT !.ub = wr.ub \/ ptr = Null],
                     [NoCall EXCEPT !.op = "worst", !.out = PCell(pts, ptr)], 1)
    /\ NotAdd3

\* find_by_exact_time(time)
FindExact(time) ==
    /\ Callable
    /\ variant = "pointer"
    /\ LET r == find_by_exact_time(pts, time)
       IN  Done([pts EXCEPT !.ub = r.ub],
                [NoCall EXCEPT !.op = "find_exact", !.timestamp = time,
                               !.e = r.res, !.ret = r.res # Null], 1)
    /\ NotAdd3

\* find_closest_time(time)
FindClosest(time) ==
    /\ Callable
    /\ variant = "pointer"
    /\ LET r == find_closest_time(pts, time)
       IN  Done([r.c EXCEPT !.ub = r.ub],
                [NoCall EXCEPT !.op = "find_closest", !.timestamp = time,
                               !.e = r.res, !.out = PCell(r.c, r.res)], 1)
    /\ NotAdd3

\* add(val, timestamp, score) on an object of each class.
AddTwin(val, t, score) ==
    /\ nops < budget /\ ~its.ub /\ ~pts.ub
    /\ t >= its.last_timestamp_plus_one
    /\ LET a == add_(its, val, t, score)
           b == p_add_(pts, val, t, score)
       IN  /\ its' \in Outcomes(a.c)
           /\ pts' = b.c
           /\ call' = [NoCall EXCEPT !.op = "add3", !.value = val, !.timestamp = t,
                                     !.score = score, !.ret = a.ret, !.out = a.c.dirty]
    /\ nops' = nops + 1
    /\ UNCHANGED <<variant, S, Reverse, budget, plain_ts>>
    /\ NotAdd3

\* test/basic.cpp and test/plain.cpp: the same turn of the loop,
\* ts.add(val, i, score) on the container and on the array.
AddPlain(val, score) ==
    /\ Callable
    /\ variant = "index"
    /\ LET a == add_(its, val, plain_ts.i, score)
       IN  /\ its' \in Outcomes(a.c)
           /\ call' = [NoCall EXCEPT !.op = "add3", !.value = val,
                                     !.timestamp = plain_ts.i,
                                     !.score = score, !.ret = a.ret, !.out = a.c.dirty]
    /\ plain_ts' = plain_add(plain_ts, val, score)
    /\ nops' = nops + 1
    /\ UNCHANGED <<variant, S, Reverse, budget, pts>>
    /\ NotAdd3

\* operator[](n)
Subscript(c, n) ==
    LET pos == IF Reverse THEN (S - c.utilized) + n ELSE n
    IN  IF variant = "index"
        THEN At(c, pos)
        ELSE IF pos \in Slots THEN PCell(c, c.index[pos]) ELSE Sample(Junk, Junk, Junk)

\* The samples the documented loop
\*     for (size_t i = size() - dirty; i < size(); ++i) rescore(ts[i]);
\* visits; with dirty > size() the unsigned i starts above size().
Rescored(c) ==
    IF c.dirty <= c.utilized
    THEN [k \in 1..c.dirty |-> Subscript(c, (c.utilized - c.dirty) + (k - 1))]
    ELSE <<>>

\* remove(e)
Remove(e) ==
    /\ Callable
    /\ variant = "pointer"
    /\ LET r == remove(pts, e)
       IN  Done(r.c, [NoCall EXCEPT !.op = "remove", !.e = e, !.ret = r.ret], 1)
    /\ NotAdd3

\* What has() can make of the never written cells, for each sample of a
\* merge; a full object has none.
HasChoices(n) ==
    IF its.utilized < S
    THEN [1..n -> BOOLEAN]
    ELSE {[k \in 1..n |-> FALSE]}

\* The k-th call passes the value k, so that the samples passed to add and
\* insert differ; the samples of a merged container carry any value.
Next ==
    \/ Add1(nops)
    \/ \E t \in Times : Add2(nops, t)
    \/ \E t \in Times, s \in Scores : Add3(nops, t, s)
    \/ \E t \in Times, s \in Scores : Insert(nops, t, s)
    \/ \E other \in OtherSeries :
            \E g \in HasChoices(Len(other)) : Merge(other, g)
    \/ \E N \in 1..S : Best(N)
    \/ \E e \in Slots : Remove(e)
    \/ Worst

Spec == Init /\ [][Next]_vars

\* Only add and insert are called.
NextInsert ==
    \/ Add1(nops)
    \/ \E t \in Times : Add2(nops, t)
    \/ \E t \in Times, s \in Scores : Add3(nops, t, s)
    \/ \E t \in Times, s \in Scores : Insert(nops, t, s)

SpecInsert == InitInsert /\ [][NextInsert]_vars

\* Only add(val, timestamp, score) is called.
NextAdd == \E t \in Times, s \in Scores : Add3(nops, t, s)

SpecAdd == InitInsert /\ [][NextAdd]_vars

\* A stream of samples with increasing timestamps is added to a larger
\* object, elements are removed, and the best samples are asked for.
InitStream == Construct(StreamCapacity, MaxStreamOps)

NextStream ==
    \/ \E s \in Scores : Add3(nops, Cur.last_timestamp_plus_one, s)
    \/ \E e \in Slots : Remove(e)
    \/ \E N \in 1..S : Best(N)
    \/ Worst

SpecStream == InitStream /\ [][NextStream]_vars

\* Samples are added in time order to the object, removed from it and looked
\* up by their time (the lookups are members of the pointer variant).
NextFind ==
    \/ \E t \in Times, s \in Scores : Add3(nops, t, s)
    \/ \E e \in Slots : Remove(e)
    \/ \E t \in Times : FindExact(t)
    \/ \E t \in Times : FindClosest(t)

SpecFind == InitInsert /\ [][NextFind]_vars

\* The value a call with an explicit score passes: calls without a score
\* pass the call number, which is smaller.
Scored(k) == k + IndexLimit

\* The number of add(val) calls of a loop: enough for dirty to pass the
\* largest index_t.
LoopLen == IndexLimit

\* add and insert calls with and without a score, after a loop of add(val)
\* or without one; dirty is never reset.
NextDirty ==
    \/ Add1(nops)
    \/ \E t \in Times : Add2(nops, t)
    \/ \E t \in Times, s \in Scores : Add3(Scored(nops), t, s)
    \/ \E t \in Times, s \in Scores : Insert(Scored(nops), t, s)
    \/ nops = 0 /\ AddLoop(nops, LoopLen)

SpecDirty == InitInsert /\ [][NextDirty]_vars

\* A small object, into which other containers of up to MaxSmallOther samples
\* are merged after or between add and insert calls.
InitSmall == Construct(SmallCapacity, MaxSmallOps)

\* What the range-for over the other container can yield: its samples in its
\* own time order, forward or reverse.
SmallOthers ==
    {o \in UNION {[1..n -> {e \in Samples : e.value = 0}] : n \in 1..MaxSmallOther} :
        \/ \A m, n \in DOMAIN o : m < n => o[m].timestamp <= o[n].timestamp
        \/ \A m, n \in DOMAIN o : m < n => o[m].timestamp >= o[n].timestamp}

NextSmall ==
    \/ \E t \in Times, s \in Scores : Add3(nops, t, s)
    \/ \E t \in Times, s \in Scores : Insert(nops, t, s)
    \/ \E other \in SmallOthers :
            \E g \in HasChoices(Len(other)) : Merge(other, g)

SpecSmall == InitSmall /\ [][NextSmall]_vars

\* The same add(val, timestamp, score) calls, with strictly increasing
\* timestamps, are made on an object of each class.
NextTwin == \E t \in Times, s \in Scores : AddTwin(nops, t, s)

SpecTwin == InitInsert /\ [][NextTwin]_vars

\* The loops of test/basic.cpp and test/plain.cpp, turn by turn.
NextPlain == \E s \in Scores : AddPlain(nops, s)

SpecPlain == InitSmall /\ [][NextPlain]_vars

(***************************************************************************)
(*                               Properties                                *)
(***************************************************************************)

Adds == {"add1", "add2", "add3"}

ScoresOf(q) == [n \in DOMAIN q |-> q[n].score]

RECURSIVE SortedSeq(_)
SortedSeq(q) == IF q = <<>> THEN <<>> ELSE SortedInsert(SortedSeq(Tail(q)), Head(q))

\* The samples of q are in the configured time order.
TimeOrdered(q) ==
    \A m, n \in DOMAIN q :
        m < n => IF Reverse
                 THEN q[m].timestamp >= q[n].timestamp
                 ELSE q[m].timestamp <= q[n].timestamp

\* The largest score the object holds.
WorstScore(c) ==
    CHOOSE w \in {e.score : e \in Retained(c)} :
        \A e \in Retained(c) : e.score <= w

\* C1: after n calls of add(value, timestamp, score) with strictly
\* increasing timestamps on an empty series, the scores iteration yields
\* are the min(n, S) smallest of the n scores passed (as multisets).
C1_TopK ==
    added.ok =>
        SortedSeq(ScoresOf(Iter(Cur)))
            = SubSeq(added.scores, 1, Min(Len(added.scores), S))

\* A sample was added to a full series, and replaced a held one.
C1_Witness ==
    /\ added.ok
    /\ Len(added.scores) > S
    /\ call.op = "add3"
    /\ call.ret
    /\ added.scores[1] < added.scores[Len(added.scores)]

\* C2: after every call, 0 <= size() <= S.
C2_Capacity == Cur.utilized >= 0 /\ Cur.utilized <= S

\* C3: after add, insert and merge calls, iteration yields the samples in
\* the configured time order.
C3_Order == ~Cur.ub => TimeOrdered(Iter(Cur))

\* The order positions iteration visits.
Active(c) ==
    {p \in Slots : IF Reverse THEN p >= S - c.utilized ELSE p < c.utilized}

\* C4: after add, insert and merge calls, the order table at the iterated
\* positions is a permutation of the occupied cells: no cell twice, no
\* occupied cell missing, no unoccupied cell.
C4_Permutation ==
    ~Cur.ub =>
        IF variant = "index"
        THEN /\ \A p, q \in Active(its) : p # q => its.offsets[p] # its.offsets[q]
             /\ {its.offsets[p] : p \in Active(its)} = {k \in Slots : k < its.utilized}
        ELSE /\ \A p, q \in Active(pts) : p # q => pts.index[p] # pts.index[q]
             /\ \A p \in Active(pts) : pts.index[p] # Null

\* C5: an insert that is retained puts the new sample at its time-ordered
\* place: iteration yields it, after samples that are not newer and before
\* samples that are newer (mirrored in Reverse mode).
C5_InsertPlaced ==
    (call.op = "insert" /\ call.ret /\ ~Cur.ub) =>
        \E n \in DOMAIN Iter(Cur) :
            /\ Iter(Cur)[n] = Sample(call.value, call.timestamp, call.score)
            /\ \A m \in DOMAIN Iter(Cur) :
                  /\ m < n => IF Reverse
                              THEN Iter(Cur)[m].timestamp > call.timestamp
                              ELSE Iter(Cur)[m].timestamp <= call.timestamp
                  /\ m > n => IF Reverse
                              THEN Iter(Cur)[m].timestamp <= call.timestamp
                              ELSE Iter(Cur)[m].timestamp > call.timestamp

\* The sample the last call passed.
Passed(cl) == Sample(cl.value, cl.timestamp, cl.score)

Inserting == Adds \cup {"insert"}

Count(q, x) == Cardinality({n \in DOMAIN q : q[n] = x})

\* post holds the samples of pre, with one e less and one new more.
Replaced(pre, post, e, new) ==
    \A x \in Range(pre) \cup Range(post) \cup {new} :
        Count(post, x) = (Count(pre, x) - (IF x = e THEN 1 ELSE 0))
                            + (IF x = new THEN 1 ELSE 0)

\* C6: when the series is full and an add or insert is retained, exactly
\* one held sample is evicted, its score was the largest held score, no
\* sample held afterwards has a larger score, and all other held samples
\* stay as they were.
C6_Eviction ==
    [][(Cur.utilized = S /\ call'.op \in Inserting /\ call'.ret) =>
            /\ ~Cur'.ub
            /\ Cur'.utilized = S
            /\ \E n \in DOMAIN Held(Cur) :
                  /\ Held(Cur)[n].score = WorstScore(Cur)
                  /\ Replaced(Held(Cur), Held(Cur'), Held(Cur)[n], Passed(call'))
                  /\ \A x \in Retained(Cur') : x.score <= Held(Cur)[n].score]_vars

\* C7: when the series is full, an add or insert whose score equals the
\* largest held score is retained and replaces a sample of that score, in
\* both variants.
C7_TieRule ==
    [][(Cur.utilized = S /\ call'.op \in Inserting
            /\ call'.score = WorstScore(Cur)) =>
            /\ call'.ret
            /\ ~Cur'.ub
            /\ \E n \in DOMAIN Held(Cur) :
                  /\ Held(Cur)[n].score = WorstScore(Cur)
                  /\ Replaced(Held(Cur), Held(Cur'), Held(Cur)[n], Passed(call'))]_vars

\* C8: when the series is full and add or insert is called with a score
\* larger than the largest held score, the call returns false, and size(),
\* dirty, the held samples and the iteration order stay as they were.
C8_RejectionFrame ==
    [][(Cur.utilized = S /\ call'.op \in Inserting
            /\ call'.score > WorstScore(Cur)) =>
            /\ ~call'.ret
            /\ ~Cur'.ub
            /\ Cur'.utilized = Cur.utilized
            /\ Cur'.dirty = Cur.dirty
            /\ Held(Cur') = Held(Cur)
            /\ Retained(Cur') = Retained(Cur)
            /\ Iter(Cur') = Iter(Cur)]_vars

\* A full series has just rejected an insert.
C8_Witness ==
    /\ call.op = "insert"
    /\ ~call.ret
    /\ Cur.utilized = S
    /\ \A e \in Retained(Cur) : e.score < call.score

\* C9: every sample best<N>() returns has a score not larger than the score
\* of every held sample it does not return (N <= size()).
C9_BestScores ==
    [][(call'.op = "best" /\ call'.N <= Cur.utilized /\ ~Cur'.ub) =>
            \A k \in DOMAIN call'.res :
                \A x \in Range(Held(Cur)) :
                    Count(Held(Cur), x) > Count(call'.res, x)
                        => call'.res[k].score <= x.score]_vars

\* C10: the samples best<N>() returns are in the configured time order
\* (N <= size()).
C10_BestOrder ==
    (call.op = "best" /\ call.N <= Cur.utilized /\ ~Cur.ub) => TimeOrdered(call.res)

\* The order table of the object.
OrderTable(c) == IF variant = "index" THEN c.offsets ELSE c.index

\* C11: best<N>() leaves the object as it was: the held samples, the order
\* table, size() and dirty, and so the iterated sequence.
C11_BestReadOnly ==
    [][call'.op = "best" =>
            /\ ~Cur'.ub
            /\ Held(Cur') = Held(Cur)
            /\ OrderTable(Cur') = OrderTable(Cur)
            /\ Cur'.utilized = Cur.utilized
            /\ Cur'.dirty = Cur.dirty
            /\ Iter(Cur') = Iter(Cur)]_vars

\* The entries of a best<N>() result that are samples (not null pointers).
Yielded(res) == {k \in DOMAIN res : res[k].value # Junk}

\* C12: in every state, also with size() < N, best<N>() yields at most
\* min(N, size()) samples, each of them a held sample, and none more often
\* than it is held.
C12_BestRetained ==
    [][call'.op = "best" =>
            /\ Cardinality(Yielded(call'.res)) <= Min(call'.N, Cur.utilized)
            /\ \A k \in Yielded(call'.res) :
                  /\ call'.res[k] \in Range(Held(Cur))
                  /\ Count(call'.res, call'.res[k])
                        <= Count(Held(Cur), call'.res[k])]_vars

\* C15: with size() > 0, worst() returns a held sample whose score is not
\* smaller than any held score, and reads no unoccupied cell and no unused
\* order entry.
C15_Worst ==
    (call.op = "worst" /\ Cur.utilized > 0) =>
        /\ ~Cur.ub
        /\ call.out \in Range(Held(Cur))
        /\ \A x \in Range(Held(Cur)) : x.score <= call.out.score

\* merge(other) with the duplicate test on whole triples: a sample is skipped
\* when the object holds the same value, timestamp and score in one cell,
\* and passed to insert_one otherwise.
RECURSIVE MergeTriples(_, _, _)
MergeTriples(c, other, k) ==
    IF k > Len(other) \/ c.ub
    THEN c
    ELSE IF other[k] \in Range(Held(c))
    THEN MergeTriples(c, other, k + 1)
    ELSE MergeTriples(insert_one(c, other[k]).c, other, k + 1)

\* C13: merge(other) skips a sample of other only when the object holds an
\* identical sample (same value, same timestamp and same score); every
\* other sample is passed to insert, in the iteration order of other.
\* Stated for a full object, where has() reads written cells only.
C13_MergeTriples ==
    [][(call'.op = "merge" /\ Cur.utilized = S) =>
            Cur' \in Outcomes(MergeTriples(Cur, call'.other, 1))]_vars

\* C14: merge(other) applied twice in succession leaves the object as one
\* application does: the same held samples, in the same iteration order.
\* Stated for a full object, where has() reads written cells only.
C14_MergeIdempotent ==
    [][(call'.op = "merge" /\ Cur.utilized = S) =>
            \A g \in [1..Len(call'.other) -> BOOLEAN] :
                LET twice == merge(Cur', call'.other, g, 1)
                IN  /\ Held(twice) = Held(Cur')
                    /\ Iter(twice) = Iter(Cur')]_vars

\* C19: last_timestamp_plus_one never decreases, and after every add and
\* insert it is larger than the timestamp that call passed (hence larger
\* than every timestamp passed so far).
C19_NextTimestamp ==
    [][/\ Cur'.last_timestamp_plus_one >= Cur.last_timestamp_plus_one
       /\ call'.op \in Inserting =>
                Cur'.last_timestamp_plus_one > call'.timestamp]_vars

\* The sample was passed by a call without a score (SpecDirty).
Unscored(x) == x.value \in 0..(IndexLimit - 1)

UnscoredHeld(c) == Cardinality({n \in DOMAIN Held(c) : Unscored(Held(c)[n])})

\* C16: add without a score increases dirty by exactly 1 when the sample is
\* retained and leaves it unchanged when it is rejected (so a loop of such
\* calls increases it by the number of retained samples); add with a score,
\* insert and merge leave dirty unchanged; every add returns the new dirty.
C16_DirtyPerCall ==
    [][/\ call'.op \in {"add1", "add2"} =>
                Cur'.dirty = Cur.dirty + (IF call'.ret THEN 1 ELSE 0)
       /\ call'.op = "loop" => Cur'.dirty = Cur.dirty + call'.N
       /\ call'.op \in {"add3", "insert", "merge"} => Cur'.dirty = Cur.dirty
       /\ call'.op \in Adds \cup {"loop"} => call'.out = Cur'.dirty]_vars

\* C17: as long as the caller does not reset it, dirty is the number of held
\* samples that were passed without a score; in particular dirty <= size().
C17_DirtyCount ==
    ~Cur.ub =>
        /\ Cur.dirty = UnscoredHeld(Cur)
        /\ Cur.dirty <= Cur.utilized

\* C18: with dirty 0 at the start and any add calls after it, the samples at
\* operator[] positions size() - dirty .. size() - 1 are exactly the held
\* samples that were added without a score.
C18_Rescoring ==
    ~Cur.ub =>
        \A x \in Range(Held(Cur)) \cup Range(Rescored(Cur)) :
            Count(Rescored(Cur), x) = (IF Unscored(x) THEN Count(Held(Cur), x) ELSE 0)

\* The element handles in the part of index that iteration walks, in order.
ActiveIndex(c) ==
    [n \in 1..c.utilized |-> c.index[(IF Reverse THEN S - c.utilized ELSE 0) + (n - 1)]]

Without(q, e) == SelectSeq(q, LAMBDA p : p # e)

\* C20: remove(e) of the pointer variant returns true exactly when e is the
\* handle of a held sample; then size() is one less, the sample is gone and
\* the other held samples stay unchanged and in the same order; when it
\* returns false the object is unchanged.
C20_Remove ==
    [][call'.op = "remove" =>
            /\ call'.ret <=> call'.e \in Range(ActiveIndex(pts))
            /\ call'.ret =>
                    /\ ~pts'.ub
                    /\ pts'.utilized = pts.utilized - 1
                    /\ ActiveIndex(pts') = Without(ActiveIndex(pts), call'.e)
                    /\ PIterate(pts') = [n \in 1..(pts.utilized - 1) |->
                                            PCell(pts, ActiveIndex(pts')[n])]
            /\ ~call'.ret => pts' = pts]_vars

\* The positions of the sequence of handles q whose sample has timestamp t.
Hits(c, q, t) == {n \in DOMAIN q : PCell(c, q[n]).timestamp = t}

Distance(x, t) == IF x.timestamp > t THEN x.timestamp - t ELSE t - x.timestamp

\* C22: on a non-empty object whose iteration is time-ordered
\* find_closest_time(t) returns a held sample with the smallest distance of
\* its timestamp to t, the first such in iteration order, and leaves every
\* stored sample unchanged.
C22_FindClosest ==
    [][(call'.op = "find_closest" /\ pts.utilized > 0 /\ TimeOrdered(PIterate(pts))) =>
            LET q == ActiveIndex(pts)
                near == {n \in DOMAIN q :
                            \A m \in DOMAIN q :
                                Distance(PCell(pts, q[n]), call'.timestamp)
                                    <= Distance(PCell(pts, q[m]), call'.timestamp)}
            IN  /\ pts' = pts
                /\ call'.e = q[CHOOSE n \in near : \A m \in near : n <= m]
                /\ call'.out = PCell(pts, call'.e)]_vars

\* C23: after every call of a sequence of add(value, timestamp, score) calls
\* with strictly increasing timestamps, made on an object of each class (of
\* the same capacity and direction), both have the same size() and their
\* iterations yield the same samples in the same order.
C23_Variants ==
    /\ its.utilized = pts.utilized
    /\ Iterate(its) = PIterate(pts)

\* C24: after every turn of the loop, the iteration of the forward
\* selective_time_series equals the contents of the array of test/plain.cpp.
C24_RefinesPlain ==
    (variant = "index" /\ ~Reverse) => Iterate(its) = PlainContents(plain_ts)

\* C25: dirty never decreases over add calls, also when more samples
\* without a score are retained than index_t can count: no call leaves
\* dirty smaller than it was, and within a loop of add(val) no call returns
\* less than the call before it.
C25_DirtyMonotonic ==
    [][call'.op \in Adds \cup {"loop"} =>
            /\ call'.op \in Adds => Cur'.dirty >= Cur.dirty
            /\ call'.op = "loop" =>
                    \A k \in DOMAIN call'.res :
                        call'.res[k] >= (IF k = 1 THEN Cur.dirty ELSE call'.res[k - 1])]_vars

\* The entries of the order array q whose element is no longer reachable
\* through q2, or holds other data in d than it held in c.
Lost(c, q, d, q2) ==
    {n \in DOMAIN q :
        \/ q[n] = Null
        \/ q[n] \notin Range(q2)
        \/ d.elements[q[n]] # c.elements[q[n]]}

\* C26: in the pointer variant, after every add and remove the order
\* entries of the occupied positions are non-null and pairwise distinct, and
\* an add leaves every sample that stays retained in its element: into a
\* container that is not full it loses no retained sample, into a full one
\* only the one it replaces.
C26_StorageIntegrity ==
    [][(variant = "pointer" /\ call'.op \in {"add3", "remove"}) =>
            LET q  == ActiveIndex(pts)
                q2 == ActiveIndex(pts')
            IN  /\ \A n \in DOMAIN q2 : q2[n] # Null
                /\ \A n, m \in DOMAIN q2 : q2[n] = q2[m] => n = m
                /\ call'.op = "add3" =>
                        Cardinality(Lost(pts, q, pts', q2))
                            <= (IF pts.utilized = S /\ call'.ret THEN 1 ELSE 0)]_vars

\* C27: in the index variant, after every sequence of add, insert and merge
\* calls no block move on offsets has left positions 0..S-1 (or been given
\* a range that ends before it starts), and in a full container
\* find_offset_index finds the worst cell, so it does not return S.
C27_OffsetsInBounds ==
    variant = "index" =>
        /\ ~its.ub
        /\ its.utilized = S => find_offset_index(its, worst_index(its)) < S

\* The samples of q are pairwise distinct triples.
DistinctTriples(q) == \A m, n \in DOMAIN q : q[m] = q[n] => m = n

\* C28: after merge(other), where the samples held and the samples of other
\* are pairwise distinct triples, the scores held are the
\* min(S, |self| + |other|) smallest scores of the samples held before and
\* the samples of other (as multisets).  Stated for a full object, where
\* has() reads written cells only.
C28_MergeBestOfUnion ==
    [][(/\ call'.op = "merge"
        /\ Cur.utilized = S
        /\ DistinctTriples(Held(Cur) \o call'.other)) =>
            LET union == SortedSeq(ScoresOf(Held(Cur) \o call'.other))
            IN  SortedSeq(ScoresOf(Held(Cur')))
                    = SubSeq(union, 1, Min(S, Len(union)))]_vars

====
